---- MODULE Spec2Model ----
(***************************************************************************)
(* The declaration files of types/openapis and                             *)
(* types/swagger-schema-official, as the relation they define between an   *)
(* OpenAPI document node written as an object literal and the declared     *)
(* type it is assigned to (`const x: T = { ... }`, the form every sample   *)
(* document of swagger-schema-official-tests.ts has).                      *)
(*                                                                         *)
(* A declared type is a value (TAny, Lit, UnionT, ObjT, ...); every        *)
(* interface or type alias of the source is one definition, built the way  *)
(* the source builds it (Extends, Omit, Required).  Accepts(v, T) is the   *)
(* compiler's verdict on the assignment: assignability of a fresh object   *)
(* literal, with excess property checks, discriminated unions, index       *)
(* signatures and weak types (TypeScript 5.x, strictNullChecks).           *)
(*                                                                         *)
(* A document node is a JSON value: a key an object carries has a JSON     *)
(* value (`undefined` is not one).  An object keeps the order of its keys, *)
(* as the literal does.                                                    *)
(***************************************************************************)
EXTENDS Naturals, Sequences, FiniteSets, TLC

VARIABLES target, node, verdict

vars == <<target, node, verdict>>

(***************************************************************************)
(* JSON values.                                                            *)
(***************************************************************************)
Str(s) == [k |-> "str", s |-> s]
Bool(b) == [k |-> "bool", b |-> b]
Num(n) == [k |-> "num", n |-> n]
Null == [k |-> "null"]
Arr(a) == [k |-> "arr", a |-> a]
\* An object: the sequence of its fields, in the order they are written.
Obj(fields) == [k |-> "obj", f |-> fields]
Field(key, val) == [key |-> key, val |-> val]

Keys(v) == {v.f[i].key : i \in 1..Len(v.f)}
HasKey(v, key) == key \in Keys(v)
Val(v, key) == v.f[CHOOSE i \in 1..Len(v.f) : v.f[i].key = key].val

\* `${p}${string}`: the strings that begin with p.
IsPrefix(p, s) == Len(p) <= Len(s) /\ SubSeq(s, 1, Len(p)) = p

(***************************************************************************)
(* Declared types.                                                         *)
(***************************************************************************)
TAny == [t |-> "any"]
TNever == [t |-> "never"]
TString == [t |-> "string"]
TNumber == [t |-> "number"]
TBoolean == [t |-> "boolean"]
\* A literal type: 'path', true.
Lit(v) == [t |-> "lit", v |-> v]
StrLit(s) == Lit(Str(s))
\* A | B | ...
UnionT(types) == [t |-> "union", of |-> types]
\* T[] and Array<T>.
ArrayT(T) == [t |-> "array", of |-> T]
\* An object type: its properties and its index signatures.
ObjT(props, idx) == [t |-> "object", props |-> props, idx |-> idx]
\* A type named by another declaration (the declarations are recursive).
Ref(name) == [t |-> "ref", name |-> name]
\* A type whose declaration is not among the source files.
Opaque(name) == [t |-> "opaque", name |-> name]
\* A template literal type `pre${string}sep${string}`.
TemplateT(pre, sep) == [t |-> "template", pre |-> pre, sep |-> sep]

\* key: T
Req(key, T) == [key |-> key, type |-> T, opt |-> FALSE]
\* key?: T
Opt(key, T) == [key |-> key, type |-> T, opt |-> TRUE]
\* [key: `${pre}${string}`]: T   (pre = "" for [key: string])
Index(pre, T) == [pre |-> pre, type |-> T]

\* Record<string, T>
RecordT(T) == ObjT(<<>>, <<Index("", T)>>)

PropKeys(T) == {T.props[i].key : i \in 1..Len(T.props)}
HasProp(T, key) == key \in PropKeys(T)
Prop(T, key) == T.props[CHOOSE i \in 1..Len(T.props) : T.props[i].key = key]
HasStringIndex(T) == \E i \in 1..Len(T.idx) : T.idx[i].pre = ""

RECURSIVE InheritProps(_, _)
\* The properties of the base interfaces that `seen` does not redeclare.
InheritProps(bases, seen) ==
    IF bases = <<>> THEN <<>>
    ELSE LET b == Head(bases)
             own == SelectSeq(b.props, LAMBDA p : p.key \notin seen)
         IN  own \o InheritProps(Tail(bases), seen \cup PropKeys(b))

RECURSIVE InheritIdx(_, _)
InheritIdx(bases, seen) ==
    IF bases = <<>> THEN <<>>
    ELSE LET b == Head(bases)
             own == SelectSeq(b.idx, LAMBDA i : i.pre \notin seen)
         IN  own \o InheritIdx(Tail(bases), seen \cup {b.idx[i].pre : i \in 1..Len(b.idx)})

\* interface X extends B1, B2 { own }: the members of own, then the inherited
\* members own does not redeclare.
Extends(bases, own) ==
    ObjT(own.props \o InheritProps(bases, PropKeys(own)),
         own.idx \o InheritIdx(bases, {own.idx[i].pre : i \in 1..Len(own.idx)}))

\* Omit<T, K> = Pick<T, Exclude<keyof T, K>>: the properties not named by K,
\* optionality kept, and the pattern index signatures (keyof T holds each
\* pattern, which no literal of K excludes).  keyof of a type with a
\* [key: string] signature is string, which leaves the signature alone.
Omit(T, K) ==
    IF HasStringIndex(T) THEN ObjT(<<>>, T.idx)
    ELSE ObjT(SelectSeq(T.props, LAMBDA p : p.key \notin K), T.idx)

\* Required<T>
Required(T) ==
    ObjT([i \in 1..Len(T.props) |-> [T.props[i] EXCEPT !.opt = FALSE]], T.idx)

(***************************************************************************)
(* common.d.ts                                                             *)
(***************************************************************************)
\* Mutant: the reserved prefixes left out, every `x-` key an extension.
Extendable_NoReserved == ObjT(<<>>, <<Index("x-", TAny)>>)

Extendable ==
    ObjT(<<>>, <<Index("x-oai-", TNever), Index("x-oas-", TNever), Index("x-", TAny)>>)

ExternalDocs ==
    Extends(<<Extendable>>,
            ObjT(<<Opt("description", TString), Req("url", TString)>>, <<>>))

SSO_Extendable ==
    ObjT(<<>>, <<Index("x-oai-", TNever), Index("x-oas-", TNever), Index("x-", TAny)>>)

SSO_ExternalDocs ==
    Extends(<<SSO_Extendable>>,
            ObjT(<<Opt("description", TString), Req("url", TString)>>, <<>>))

(***************************************************************************)
(* reference.d.ts                                                          *)
(***************************************************************************)
Referable == ObjT(<<Opt("$ref", TString)>>, <<>>)

\* Mutant: Reference made extendable, as every other object of the document is.
Reference_Extendable ==
    Extends(<<Required(Referable), Extendable>>,
            ObjT(<<Req("$ref", TString),
                   Opt("summary", TString),
                   Opt("description", TString)>>, <<>>))

Reference ==
    Extends(<<Required(Referable)>>,
            ObjT(<<Req("$ref", TString),
                   Opt("summary", TString),
                   Opt("description", TString)>>, <<>>))

SSO_Referable == ObjT(<<Opt("$ref", TString)>>, <<>>)

SSO_Reference ==
    Extends(<<Required(SSO_Referable)>>,
            ObjT(<<Req("$ref", TString),
                   Opt("summary", TString),
                   Opt("description", TString)>>, <<>>))

\* schema.d.ts (OAS 3.0.3) takes its Reference from './reference'.
Reference_v30 == Reference

(***************************************************************************)
(* openapis/schema.d.ts (OAS 3.0.3)                                        *)
(***************************************************************************)
Discriminator_v30 ==
    Extends(<<Extendable>>,
            ObjT(<<Req("propertyName", TString),
                   Opt("mapping", RecordT(TString))>>, <<>>))

XML_v30 ==
    Extends(<<Extendable>>,
            ObjT(<<Opt("name", TString), Opt("namespace", TString),
                   Opt("prefix", TString), Opt("attribute", TBoolean),
                   Opt("wrapped", TBoolean)>>, <<>>))

AllSchema_v30 ==
    ObjT(<<Opt("title", TNever), Opt("multipleOf", TNever), Opt("maximum", TNever),
           Opt("exclusiveMaximum", TNever), Opt("minimum", TNever),
           Opt("exclusiveMinimum", TNever), Opt("maxLength", TNever),
           Opt("minLength", TNever), Opt("pattern", TNever), Opt("maxItems", TNever),
           Opt("minItems", TNever), Opt("uniqueItems", TNever),
           Opt("maxProperties", TNever), Opt("minProperties", TNever),
           Opt("required", TNever), Opt("enum", TNever), Opt("type", TNever),
           Opt("allOf", TNever), Opt("oneOf", TNever), Opt("anyOf", TNever),
           Opt("not", TNever), Opt("items", TNever), Opt("properties", TNever),
           Opt("additionalProperties", TNever), Opt("description", TNever),
           Opt("format", TNever), Opt("default", TNever), Opt("nullable", TNever),
           Opt("discriminator", TNever), Opt("readOnly", TNever),
           Opt("writeOnly", TNever), Opt("xml", TNever), Opt("externalDocs", TNever),
           Opt("example", TNever), Opt("deprecated", TNever)>>, <<>>)

BaseSchema_v30 ==
    Extends(<<Omit(AllSchema_v30, {"title", "description"})>>,
            ObjT(<<Opt("title", TString), Opt("description", TString)>>, <<>>))

BaseComposition_v30 ==
    Extends(<<Omit(BaseSchema_v30, {"discriminator"})>>,
            ObjT(<<Opt("discriminator", Discriminator_v30)>>, <<>>))

SchemaOrReference_v30 == UnionT(<<Ref("Schema_v30"), Reference_v30>>)

OneOfSchema_v30 ==
    Extends(<<Omit(BaseComposition_v30, {"oneOf"})>>,
            ObjT(<<Req("oneOf", ArrayT(SchemaOrReference_v30))>>, <<>>))

AnyOfSchema_v30 ==
    Extends(<<Omit(BaseComposition_v30, {"anyOf"})>>,
            ObjT(<<Req("anyOf", ArrayT(SchemaOrReference_v30))>>, <<>>))

AllOfSchema_v30 ==
    Extends(<<Omit(BaseComposition_v30, {"allOf"})>>,
            ObjT(<<Req("allOf", ArrayT(SchemaOrReference_v30))>>, <<>>))

NotSchema_v30 ==
    Extends(<<Omit(BaseSchema_v30, {"not"})>>,
            ObjT(<<Req("not", SchemaOrReference_v30)>>, <<>>))

CompositionSchema_v30 ==
    UnionT(<<OneOfSchema_v30, AnyOfSchema_v30, AllOfSchema_v30, NotSchema_v30>>)

SchemaType_v30 ==
    UnionT(<<StrLit("string"), StrLit("number"), StrLit("integer"),
             StrLit("boolean"), StrLit("array"), StrLit("object")>>)

\* The three declarations of TypedSchema merge into one interface.
TypedSchema_v30 ==
    Extends(<<Omit(BaseSchema_v30,
                   {"type", "nullable", "discriminator", "readOnly", "writeOnly",
                    "xml", "externalDocs", "example", "deprecated", "enum", "default"})>>,
            ObjT(<<Opt("type", SchemaType_v30),
                   Opt("nullable", TBoolean), Opt("readOnly", TBoolean),
                   Opt("writeOnly", TBoolean), Opt("xml", XML_v30),
                   Opt("externalDocs", ExternalDocs), Opt("example", TAny),
                   Opt("deprecated", TBoolean), Opt("enum", ArrayT(TAny)),
                   Opt("default", TAny)>>, <<>>))

SchemaNumberFormat_v30 == UnionT(<<StrLit("float"), StrLit("double")>>)

BaseNumberSchema_v30 ==
    Extends(<<Omit(TypedSchema_v30,
                   {"multipleOf", "maximum", "exclusiveMaximum", "minimum",
                    "exclusiveMinimum"})>>,
            ObjT(<<Opt("multipleOf", TNumber), Opt("maximum", TNumber),
                   Opt("exclusiveMaximum", TBoolean), Opt("minimum", TNumber),
                   Opt("exclusiveMinimum", TBoolean)>>, <<>>))

NumberSchema_v30 ==
    Extends(<<Omit(BaseNumberSchema_v30, {"format"})>>,
            ObjT(<<Opt("type", StrLit("number")),
                   Opt("format", SchemaNumberFormat_v30),
                   Opt("default", TNumber)>>, <<>>))

SchemaIntegerFormat_v30 == UnionT(<<StrLit("int32"), StrLit("int64")>>)

IntegerSchema_v30 ==
    Extends(<<Omit(BaseNumberSchema_v30, {"format"})>>,
            ObjT(<<Opt("type", StrLit("integer")),
                   Opt("format", SchemaIntegerFormat_v30),
                   Opt("default", TNumber)>>, <<>>))

StringSchema_v30 ==
    Extends(<<Omit(TypedSchema_v30, {"format", "pattern", "minLength", "maxLength"})>>,
            ObjT(<<Opt("type", StrLit("string")), Opt("format", TString),
                   Opt("maxLength", TNumber), Opt("minLength", TNumber),
                   Opt("pattern", TString), Opt("default", TString)>>, <<>>))

BooleanSchema_v30 ==
    Extends(<<Omit(TypedSchema_v30, {"default"})>>,
            ObjT(<<Opt("type", StrLit("boolean")), Opt("default", TBoolean)>>, <<>>))

ArraySchema_v30 ==
    Extends(<<Omit(TypedSchema_v30, {"items", "maxItems", "minItems", "uniqueItems"})>>,
            ObjT(<<Opt("type", StrLit("array")),
                   Req("items", UnionT(<<CompositionSchema_v30, Ref("NormalSchema_v30"),
                                         Reference_v30>>)),
                   Opt("maxItems", TNumber), Opt("minItems", TNumber),
                   Opt("uniqueItems", TBoolean), Opt("default", ArrayT(TAny))>>, <<>>))

ObjectSchema_v30 ==
    Extends(<<Omit(TypedSchema_v30, {"properties", "required"})>>,
            ObjT(<<Opt("type", StrLit("object")),
                   Req("properties", RecordT(Ref("Schema_v30"))),
                   Opt("required", ArrayT(TString)), Opt("default", TAny)>>, <<>>))

FreeFormObjectSchema_v30 ==
    Extends(<<Omit(TypedSchema_v30,
                   {"additionalProperties", "minProperties", "maxProperties"})>>,
            ObjT(<<Opt("type", StrLit("object")),
                   Opt("additionalProperties", UnionT(<<TBoolean, Ref("Schema_v30")>>)),
                   Opt("maxProperties", TNumber), Opt("minProperties", TNumber),
                   Opt("default", TAny)>>, <<>>))

NormalSchema_v30 ==
    UnionT(<<NumberSchema_v30, IntegerSchema_v30, StringSchema_v30, BooleanSchema_v30,
             ArraySchema_v30, ObjectSchema_v30, FreeFormObjectSchema_v30>>)

Schema_v30 == UnionT(<<CompositionSchema_v30, NormalSchema_v30, Reference_v30>>)

(***************************************************************************)
(* Example: openapi.d.ts (OAS 3.0.3, then OAS 3.1.0) and                   *)
(* swagger-schema-official/example.d.ts                                    *)
(***************************************************************************)
BaseExample_v30 ==
    Extends(<<Extendable>>,
            ObjT(<<Opt("summary", TString), Opt("description", TString),
                   Opt("value", TNever), Opt("externalValue", TNever)>>, <<>>))

InlineExample_v30 ==
    Extends(<<Omit(BaseExample_v30, {"value"})>>, ObjT(<<Opt("value", TAny)>>, <<>>))

ExternalExample_v30 ==
    Extends(<<Omit(BaseExample_v30, {"externalValue"})>>,
            ObjT(<<Opt("externalValue", TString)>>, <<>>))

Example_v30 == UnionT(<<InlineExample_v30, ExternalExample_v30>>)

BaseExample ==
    Extends(<<Extendable>>,
            ObjT(<<Opt("summary", TString), Opt("description", TString),
                   Opt("value", TNever), Opt("externalValue", TNever)>>, <<>>))

InlineExample ==
    Extends(<<Omit(BaseExample, {"value"})>>, ObjT(<<Opt("value", TAny)>>, <<>>))

ExternalExample ==
    Extends(<<Omit(BaseExample, {"externalValue"})>>,
            ObjT(<<Opt("externalValue", TString)>>, <<>>))

Example == UnionT(<<InlineExample, ExternalExample>>)

SSO_BaseExample ==
    Extends(<<SSO_Extendable>>,
            ObjT(<<Opt("summary", TString), Opt("description", TString)>>, <<>>))

SSO_InlineExample == Extends(<<SSO_BaseExample>>, ObjT(<<Opt("value", TAny)>>, <<>>))

SSO_ExternalExample ==
    Extends(<<SSO_BaseExample>>, ObjT(<<Opt("externalValue", TString)>>, <<>>))

SSO_Example == UnionT(<<SSO_InlineExample, SSO_ExternalExample>>)

(***************************************************************************)
(* openapis/parameter.d.ts                                                 *)
(***************************************************************************)
ParameterLocation == UnionT(<<StrLit("path"), StrLit("query"), StrLit("header"), StrLit("cookie")>>)

MatrixStyle == StrLit("matrix")
LabelStyle == StrLit("label")
FormStyle == StrLit("form")
SimpleStyle == StrLit("simple")
SpaceDelimitedStyle == StrLit("spaceDelimited")
PipeDelimitedStyle == StrLit("pipeDelimited")
DeepObjectStyle == StrLit("deepObject")

PathParameterStyle == UnionT(<<SimpleStyle, LabelStyle, MatrixStyle>>)
QueryParameterStyle ==
    UnionT(<<FormStyle, SpaceDelimitedStyle, PipeDelimitedStyle, DeepObjectStyle>>)
HeaderParameterStyle == SimpleStyle
CookieParameterStyle == FormStyle
ParameterStyle ==
    UnionT(<<PathParameterStyle, QueryParameterStyle, HeaderParameterStyle, CookieParameterStyle>>)

\* Mutant: `allowEmptyValue` and `allowReserved` open to every location.
BaseParameter_AllowAnywhere ==
    Extends(<<Extendable>>,
            ObjT(<<Req("name", TString), Req("in", ParameterLocation),
                   Opt("description", TString), Opt("required", TBoolean),
                   Opt("deprecated", TBoolean),
                   Opt("allowEmptyValue", TBoolean), Opt("style", TNever),
                   Opt("explode", TNever), Opt("allowReserved", TBoolean),
                   Opt("schema", TNever), Opt("example", TNever),
                   Opt("examples", TNever), Opt("content", TNever)>>, <<>>))

BaseParameter ==
    Extends(<<Extendable>>,
            ObjT(<<Req("name", TString), Req("in", ParameterLocation),
                   Opt("description", TString), Opt("required", TBoolean),
                   Opt("deprecated", TBoolean),
                   Opt("allowEmptyValue", TNever), Opt("style", TNever),
                   Opt("explode", TNever), Opt("allowReserved", TNever),
                   Opt("schema", TNever), Opt("example", TNever),
                   Opt("examples", TNever), Opt("content", TNever)>>, <<>>))

SimpleBaseParameter ==
    Extends(<<Omit(BaseParameter, {"style", "explode", "schema", "example", "examples"})>>,
            ObjT(<<Opt("style", ParameterStyle), Opt("explode", TBoolean),
                   Opt("allowReserved", TNever),
                   Opt("schema", UnionT(<<Ref("Schema_v30"), Ref("Reference")>>)),
                   Opt("example", TAny),
                   Opt("examples", RecordT(UnionT(<<Ref("Example"), Ref("Reference")>>)))>>,
                 <<>>))

\* Mutant: `schema` declared again next to `content`.
ComplexBaseParameter_WithSchema ==
    Extends(<<Omit(BaseParameter, {"content", "schema"})>>,
            ObjT(<<Opt("content", Ref("MediaTypeMap")),
                   Opt("schema", UnionT(<<Ref("Schema_v30"), Ref("Reference")>>))>>, <<>>))

ComplexBaseParameter ==
    Extends(<<Omit(BaseParameter, {"content"})>>,
            ObjT(<<Opt("content", Ref("MediaTypeMap"))>>, <<>>))

\* Mutant: `required` left as the base declares it, optional and boolean.
PathParameterOptions_RequiredOptional ==
    ObjT(<<Req("name", TString), Req("in", StrLit("path")),
           Opt("required", TBoolean),
           Opt("style", PathParameterStyle)>>, <<>>)

PathParameterOptions ==
    ObjT(<<Req("name", TString), Req("in", StrLit("path")),
           Req("required", Lit(Bool(TRUE))),
           Opt("style", PathParameterStyle)>>, <<>>)

SimplePathParameter ==
    Extends(<<Omit(SimpleBaseParameter, PropKeys(PathParameterOptions)), PathParameterOptions>>,
            ObjT(<<>>, <<>>))

ComplexPathParameter ==
    Extends(<<Omit(ComplexBaseParameter, PropKeys(PathParameterOptions)), PathParameterOptions>>,
            ObjT(<<>>, <<>>))

PathParameter == UnionT(<<SimplePathParameter, ComplexPathParameter>>)

QueryParameterOptions ==
    ObjT(<<Req("in", StrLit("query")), Opt("allowEmptyValue", TBoolean),
           Opt("style", QueryParameterStyle), Opt("allowReserved", TBoolean)>>, <<>>)

SimpleQueryParameter ==
    Extends(<<Omit(SimpleBaseParameter, PropKeys(QueryParameterOptions)), QueryParameterOptions>>,
            ObjT(<<>>, <<>>))

ComplexQueryParameter ==
    Extends(<<Omit(ComplexBaseParameter, PropKeys(QueryParameterOptions)), QueryParameterOptions>>,
            ObjT(<<>>, <<>>))

QueryParameter == UnionT(<<SimpleQueryParameter, ComplexQueryParameter>>)

\* Mutant: the header options take the style of any location.
HeaderParameterOptions_AnyStyle ==
    ObjT(<<Req("name", TString), Req("in", StrLit("header")),
           Opt("style", ParameterStyle)>>, <<>>)

HeaderParameterOptions ==
    ObjT(<<Req("name", TString), Req("in", StrLit("header")),
           Opt("style", HeaderParameterStyle)>>, <<>>)

SimpleHeaderParameter ==
    Extends(<<Omit(SimpleBaseParameter, PropKeys(HeaderParameterOptions)), HeaderParameterOptions>>,
            ObjT(<<>>, <<>>))

ComplexHeaderParameter ==
    Extends(<<Omit(ComplexBaseParameter, PropKeys(HeaderParameterOptions)), HeaderParameterOptions>>,
            ObjT(<<>>, <<>>))

HeaderParameter == UnionT(<<SimpleHeaderParameter, ComplexHeaderParameter>>)

CookieParameterOptions ==
    ObjT(<<Req("in", StrLit("cookie")), Opt("style", CookieParameterStyle)>>, <<>>)

SimpleCookieParameter ==
    Extends(<<Omit(SimpleBaseParameter, PropKeys(CookieParameterOptions)), CookieParameterOptions>>,
            ObjT(<<>>, <<>>))

ComplexCookieParameter ==
    Extends(<<Omit(ComplexBaseParameter, PropKeys(CookieParameterOptions)), CookieParameterOptions>>,
            ObjT(<<>>, <<>>))

CookieParameter == UnionT(<<SimpleCookieParameter, ComplexCookieParameter>>)

Parameter == UnionT(<<PathParameter, QueryParameter, HeaderParameter, CookieParameter>>)

(***************************************************************************)
(* openapis header.d.ts                                                    *)
(***************************************************************************)
\* Omit over a union: Pick is homomorphic in its first argument, so it maps
\* over the constituents, each keeping the keys the constituents share (here
\* every key: the two declare the same ones).
Header ==
    UnionT(<<Omit(SimpleHeaderParameter, {"name", "in"}),
             Omit(ComplexHeaderParameter, {"name", "in"})>>)

(***************************************************************************)
(* openapis/media.d.ts (OAS 3.0.3)                                         *)
(***************************************************************************)
BaseEncoding == Extends(<<Extendable>>, ObjT(<<Opt("contentType", TString)>>, <<>>))

AnyEncoding ==
    Extends(<<BaseEncoding>>,
            ObjT(<<Opt("headers", TNever), Opt("style", TNever),
                   Opt("explode", TNever), Opt("allowReserved", TNever)>>, <<>>))

MultiPartFormEncoding ==
    Extends(<<BaseEncoding>>,
            ObjT(<<Opt("headers", RecordT(UnionT(<<Ref("Header"), Ref("Reference")>>))),
                   Opt("style", TNever), Opt("explode", TNever),
                   Opt("allowReserved", TNever)>>, <<>>))

ApplicationXWwwFormUrlEncodedEncoding ==
    Extends(<<BaseEncoding>>,
            ObjT(<<Opt("headers", TNever), Opt("style", QueryParameterStyle),
                   Opt("explode", TBoolean), Opt("allowReserved", TBoolean)>>, <<>>))

Encoding ==
    UnionT(<<AnyEncoding, MultiPartFormEncoding, ApplicationXWwwFormUrlEncodedEncoding>>)

BaseMediaType ==
    Extends(<<Extendable>>,
            ObjT(<<Opt("schema", UnionT(<<Ref("Schema_v30"), Ref("Reference")>>)),
                   Opt("encoding", RecordT(Encoding)),
                   Opt("example", TNever), Opt("examples", TNever)>>, <<>>))

\* Mutant: `examples` declared again next to `example`.
MediaTypeWithExample_WithExamples ==
    Extends(<<Omit(BaseMediaType, {"example", "examples"})>>,
            ObjT(<<Opt("example", TAny),
                   Opt("examples", RecordT(UnionT(<<Ref("Example_v30"), Ref("Reference")>>)))>>,
                 <<>>))

MediaTypeWithExample ==
    Extends(<<Omit(BaseMediaType, {"example"})>>, ObjT(<<Opt("example", TAny)>>, <<>>))

MediaTypeWithExamples ==
    Extends(<<Omit(BaseMediaType, {"examples"})>>,
            ObjT(<<Opt("examples", RecordT(UnionT(<<Ref("Example_v30"), Ref("Reference")>>)))>>,
                 <<>>))

MediaType == UnionT(<<MediaTypeWithExample, MediaTypeWithExamples>>)

MediaTypeMap == RecordT(MediaType)

(***************************************************************************)
(* swagger-schema-official schema.d.ts                                     *)
(***************************************************************************)
SSO_Discriminator ==
    Extends(<<SSO_Extendable>>,
            ObjT(<<Req("propertyName", TString),
                   Opt("mapping", RecordT(TString))>>, <<>>))

SSO_XML ==
    Extends(<<SSO_Extendable>>,
            ObjT(<<Opt("name", TString), Opt("namespace", TString),
                   Opt("prefix", TString), Opt("attribute", TBoolean),
                   Opt("wrapped", TBoolean)>>, <<>>))

SSO_BaseSchema ==
    Extends(<<SSO_Extendable>>,
            ObjT(<<Opt("xml", SSO_XML), Opt("externalDocs", SSO_ExternalDocs),
                   Opt("example", TAny)>>, <<>>))

SSO_BaseComposition ==
    Extends(<<SSO_BaseSchema>>, ObjT(<<Opt("discriminator", SSO_Discriminator)>>, <<>>))

SSO_SchemaOrReference == UnionT(<<Ref("SSO_Schema"), Ref("SSO_Reference")>>)

SSO_OneOfSchema ==
    Extends(<<SSO_BaseComposition>>,
            ObjT(<<Req("oneOf", ArrayT(SSO_SchemaOrReference))>>, <<>>))

SSO_AnyOfSchema ==
    Extends(<<SSO_BaseComposition>>,
            ObjT(<<Req("anyOf", ArrayT(SSO_SchemaOrReference))>>, <<>>))

SSO_AllOfSchema ==
    Extends(<<SSO_BaseComposition>>,
            ObjT(<<Req("allOf", ArrayT(SSO_SchemaOrReference))>>, <<>>))

SSO_NotSchema ==
    Extends(<<SSO_BaseSchema>>, ObjT(<<Req("not", SSO_SchemaOrReference)>>, <<>>))

SSO_CompositionSchema ==
    UnionT(<<SSO_OneOfSchema, SSO_AnyOfSchema, SSO_AllOfSchema, SSO_NotSchema>>)

SSO_SchemaType ==
    UnionT(<<StrLit("string"), StrLit("number"), StrLit("integer"),
             StrLit("boolean"), StrLit("array"), StrLit("object")>>)

SSO_TypedSchema ==
    Extends(<<SSO_BaseSchema>>,
            ObjT(<<Req("type", SSO_SchemaType), Opt("nullable", TBoolean),
                   Opt("readOnly", TBoolean), Opt("writeOnly", TBoolean)>>, <<>>))

SSO_SchemaNumberFormat == UnionT(<<StrLit("float"), StrLit("double")>>)

SSO_NumberSchema ==
    Extends(<<SSO_TypedSchema>>,
            ObjT(<<Req("type", StrLit("number")), Opt("format", SSO_SchemaNumberFormat),
                   Opt("minimum", TNumber), Opt("maximum", TNumber),
                   Opt("exclusiveMaximum", TBoolean), Opt("exclusiveMinimum", TBoolean),
                   Opt("multipleOf", TNumber)>>, <<>>))

SSO_SchemaIntegerFormat == UnionT(<<StrLit("int32"), StrLit("int64")>>)

SSO_IntegerSchema ==
    Extends(<<SSO_TypedSchema>>,
            ObjT(<<Req("type", StrLit("integer")), Opt("format", SSO_SchemaIntegerFormat),
                   Opt("minimum", TNumber), Opt("maximum", TNumber),
                   Opt("exclusiveMaximum", TBoolean), Opt("exclusiveMinimum", TBoolean),
                   Opt("multipleOf", TNumber)>>, <<>>))

\* format?: SchemaStringFormat | string, which is string.
SSO_StringSchema ==
    Extends(<<SSO_TypedSchema>>,
            ObjT(<<Req("type", StrLit("string")), Opt("format", TString),
                   Opt("pattern", TString), Opt("minLength", TNumber),
                   Opt("maxLength", TNumber), Opt("enum", ArrayT(TString))>>, <<>>))

SSO_BooleanSchema ==
    Extends(<<SSO_TypedSchema>>, ObjT(<<Req("type", StrLit("boolean"))>>, <<>>))

SSO_ArraySchema ==
    Extends(<<SSO_TypedSchema>>,
            ObjT(<<Req("type", StrLit("array")),
                   Req("items", UnionT(<<Ref("SSO_CompositionSchema"),
                                         ArrayT(Ref("SSO_NormalSchema"))>>)),
                   Opt("maxItems", TNumber), Opt("minItems", TNumber),
                   Opt("uniqueItems", TBoolean)>>, <<>>))

SSO_ObjectSchema ==
    Extends(<<SSO_TypedSchema>>,
            ObjT(<<Req("type", StrLit("object")),
                   Req("properties", RecordT(Ref("SSO_Schema"))),
                   Opt("required", ArrayT(TString))>>, <<>>))

SSO_FreeFormObjectSchema ==
    Extends(<<SSO_TypedSchema>>,
            ObjT(<<Req("type", StrLit("object")),
                   Opt("additionalProperties", UnionT(<<Lit(Bool(TRUE)), Ref("SSO_Schema")>>)),
                   Opt("minProperties", TNumber), Opt("maxProperties", TNumber)>>, <<>>))

SSO_NormalSchema ==
    UnionT(<<SSO_NumberSchema, SSO_IntegerSchema, SSO_StringSchema, SSO_BooleanSchema,
             SSO_ArraySchema, SSO_ObjectSchema, SSO_FreeFormObjectSchema, SSO_Reference>>)

SSO_Schema == UnionT(<<SSO_CompositionSchema, SSO_NormalSchema>>)

(***************************************************************************)
(* swagger-schema-official/parameter.d.ts                                  *)
(***************************************************************************)
SSO_ParameterLocation ==
    UnionT(<<StrLit("query"), StrLit("path"), StrLit("header"), StrLit("cookie")>>)

SSO_PathParameterStyle == UnionT(<<StrLit("simple"), StrLit("label"), StrLit("matrix")>>)
SSO_QueryParameterStyle ==
    UnionT(<<StrLit("form"), StrLit("spaceDelimited"), StrLit("pipeDelimited"),
             StrLit("deepObject")>>)
SSO_HeaderParameterStyle == StrLit("simple")
SSO_CookieParameterStyle == StrLit("form")
SSO_ParameterStyle ==
    UnionT(<<SSO_PathParameterStyle, SSO_QueryParameterStyle,
             SSO_HeaderParameterStyle, SSO_CookieParameterStyle>>)

SSO_BaseParameter ==
    Extends(<<SSO_Extendable>>,
            ObjT(<<Req("name", TString), Req("in", SSO_ParameterLocation),
                   Opt("description", TString), Opt("required", TBoolean),
                   Opt("deprecated", TBoolean), Opt("style", SSO_ParameterStyle),
                   Opt("explode", TBoolean), Opt("allowReserved", TBoolean),
                   Opt("schema", Ref("SSO_Schema")), Opt("example", TAny),
                   Opt("examples", RecordT(UnionT(<<Ref("SSO_Example"), Ref("SSO_Reference")>>))),
                   Opt("content", Ref("SSO_MediaTypeMap"))>>, <<>>))

SSO_PathParameter ==
    Extends(<<SSO_BaseParameter>>,
            ObjT(<<Req("in", StrLit("path")), Req("required", Lit(Bool(TRUE))),
                   Opt("style", SSO_PathParameterStyle)>>, <<>>))

SSO_QueryParameter ==
    Extends(<<SSO_BaseParameter>>,
            ObjT(<<Req("in", StrLit("query")), Opt("allowEmptyValue", TBoolean),
                   Opt("style", SSO_QueryParameterStyle)>>, <<>>))

SSO_HeaderParameter ==
    Extends(<<SSO_BaseParameter>>,
            ObjT(<<Req("in", StrLit("header")), Opt("style", SSO_HeaderParameterStyle)>>, <<>>))

SSO_CookieParameter ==
    Extends(<<SSO_BaseParameter>>,
            ObjT(<<Req("in", StrLit("cookie")), Opt("style", SSO_CookieParameterStyle)>>, <<>>))

SSO_Parameter ==
    UnionT(<<SSO_PathParameter, SSO_QueryParameter, SSO_HeaderParameter, SSO_CookieParameter>>)

\* header.d.ts, over the package's own HeaderParameter.
SSO_Header == Omit(SSO_HeaderParameter, {"name", "in"})

(***************************************************************************)
(* swagger-schema-official/media.d.ts                                      *)
(***************************************************************************)
SSO_Encoding ==
    Extends(<<SSO_Extendable>>,
            ObjT(<<Opt("contentType", TString),
                   Opt("headers", RecordT(UnionT(<<Ref("SSO_Header"), Ref("SSO_Reference")>>))),
                   Opt("style", SSO_QueryParameterStyle), Opt("explode", TBoolean),
                   Opt("allowReserved", TBoolean)>>, <<>>))

SSO_MediaType ==
    Extends(<<SSO_Extendable>>,
            ObjT(<<Opt("schema", Ref("SSO_Schema")), Opt("example", TAny),
                   Opt("examples", RecordT(UnionT(<<Ref("SSO_Example"), Ref("SSO_Reference")>>))),
                   Opt("encoding", RecordT(SSO_Encoding))>>, <<>>))

SSO_MediaTypeMap == RecordT(SSO_MediaType)

(***************************************************************************)
(* server.d.ts                                                             *)
(***************************************************************************)
ServerVariable ==
    Extends(<<Extendable>>,
            ObjT(<<Opt("enum", ArrayT(TString)), Req("default", TString),
                   Opt("description", TString)>>, <<>>))

Server ==
    Extends(<<Extendable>>,
            ObjT(<<Req("url", TString), Opt("description", TString),
                   Opt("variables", RecordT(ServerVariable))>>, <<>>))

(***************************************************************************)
(* path.d.ts                                                               *)
(***************************************************************************)
\* operation.d.ts is not among the source files.
Operation == Opaque("Operation")

PathItem ==
    Extends(<<Referable, Extendable>>,
            ObjT(<<Opt("$ref", TString), Opt("summary", TString),
                   Opt("description", TString),
                   Opt("get", Operation), Opt("put", Operation), Opt("post", Operation),
                   Opt("delete", Operation), Opt("options", Operation),
                   Opt("head", Operation), Opt("patch", Operation), Opt("trace", Operation),
                   Opt("server", ArrayT(Server)),
                   Opt("parameters", ArrayT(UnionT(<<Ref("Parameter"), Ref("Reference")>>)))>>,
                 <<>>))

\* Mutant: [pathName: string] for the `/${string}` pattern.
Paths_AnyKey == Extends(<<Extendable>>, ObjT(<<>>, <<Index("", PathItem)>>))

Paths == Extends(<<Extendable>>, ObjT(<<>>, <<Index("/", PathItem)>>))

SSO_PathItem ==
    Extends(<<SSO_Referable, SSO_Extendable>>,
            ObjT(<<Opt("$ref", TString), Opt("summary", TString),
                   Opt("description", TString),
                   Opt("get", Operation), Opt("put", Operation), Opt("post", Operation),
                   Opt("delete", Operation), Opt("options", Operation),
                   Opt("head", Operation), Opt("patch", Operation), Opt("trace", Operation),
                   Opt("server", ArrayT(Server)),
                   Opt("parameters", ArrayT(UnionT(<<Ref("SSO_Parameter"), Ref("SSO_Reference")>>)))>>,
                 <<>>))

SSO_Paths == Extends(<<SSO_Extendable>>, ObjT(<<>>, <<Index("/", SSO_PathItem)>>))

(***************************************************************************)
(* openapis common.d.ts (OAS 3.0.3), the second part of path.d.ts          *)
(***************************************************************************)
Extendable_v30 == ObjT(<<>>, <<Index("x-", TAny)>>)

ExternalDocs_v30 ==
    Extends(<<Extendable_v30>>,
            ObjT(<<Opt("description", TString), Req("url", TString)>>, <<>>))

(***************************************************************************)
(* openapis schema.d.ts (OAS 3.1), the second part of response.d.ts        *)
(***************************************************************************)
Discriminator ==
    Extends(<<Extendable>>,
            ObjT(<<Req("propertyName", TString),
                   Opt("mapping", RecordT(TString))>>, <<>>))

XML ==
    Extends(<<Extendable>>,
            ObjT(<<Opt("name", TString), Opt("namespace", TString),
                   Opt("prefix", TString), Opt("attribute", TBoolean),
                   Opt("wrapped", TBoolean)>>, <<>>))

BaseSchema ==
    ObjT(<<Opt("title", TString), Opt("description", TString),
           Opt("$schema", TString), Opt("$vocabulary", RecordT(TBoolean)),
           Opt("$id", TString), Opt("$anchor", TString),
           Opt("$dynamicAnchor", TString), Opt("$ref", TString),
           Opt("$dynamicRef", TString), Opt("$defs", RecordT(Ref("Schema"))),
           Opt("$comment", TString)>>, <<>>)

BaseComposition ==
    Extends(<<Omit(BaseSchema, {"discriminator"})>>,
            ObjT(<<Opt("discriminator", Discriminator)>>, <<>>))

OneOfSchema ==
    Extends(<<Omit(BaseComposition, {"oneOf"})>>,
            ObjT(<<Req("oneOf", ArrayT(Ref("Schema")))>>, <<>>))

AnyOfSchema ==
    Extends(<<Omit(BaseComposition, {"anyOf"})>>,
            ObjT(<<Req("anyOf", ArrayT(Ref("Schema")))>>, <<>>))

AllOfSchema ==
    Extends(<<Omit(BaseComposition, {"allOf"})>>,
            ObjT(<<Req("allOf", ArrayT(Ref("Schema")))>>, <<>>))

NotSchema ==
    Extends(<<Omit(BaseSchema, {"not"})>>,
            ObjT(<<Req("not", Ref("Schema"))>>, <<>>))

ConditionalSchema ==
    Extends(<<Omit(BaseSchema, {"if", "then", "else"})>>,
            ObjT(<<Req("if", Ref("Schema")), Opt("then", Ref("Schema")),
                   Opt("else", Ref("Schema"))>>, <<>>))

CompositionSchema == UnionT(<<OneOfSchema, AnyOfSchema, AllOfSchema, NotSchema>>)

SchemaType ==
    UnionT(<<StrLit("string"), StrLit("number"), StrLit("integer"),
             StrLit("boolean"), StrLit("array"), StrLit("object"), StrLit("null")>>)

\* The four declarations of TypedSchema merge into one interface.
TypedSchema ==
    Extends(<<Omit(BaseSchema,
                   {"type", "xml", "externalDocs", "example", "enum", "const",
                    "default", "deprecated", "readOnly", "writeOnly", "examples"})>>,
            ObjT(<<Opt("type", UnionT(<<SchemaType, ArrayT(SchemaType)>>)),
                   Opt("xml", XML), Opt("externalDocs", ExternalDocs),
                   Opt("example", TAny), Opt("enum", ArrayT(TAny)),
                   Opt("const", TAny), Opt("default", TAny),
                   Opt("deprecated", TBoolean), Opt("readOnly", TBoolean),
                   Opt("writeOnly", TBoolean), Opt("examples", ArrayT(TAny))>>, <<>>))

SchemaNumberFormat == UnionT(<<StrLit("float"), StrLit("double")>>)

\* Mutant: the 3.0 reading, the exclusive bounds as flags.
BaseNumberSchema_BooleanBounds ==
    Extends(<<Omit(TypedSchema,
                   {"multipleOf", "maximum", "exclusiveMaximum", "minimum",
                    "exclusiveMinimum"})>>,
            ObjT(<<Opt("multipleOf", TNumber), Opt("maximum", TNumber),
                   Opt("exclusiveMaximum", TBoolean), Opt("minimum", TNumber),
                   Opt("exclusiveMinimum", TBoolean)>>, <<>>))

BaseNumberSchema ==
    Extends(<<Omit(TypedSchema,
                   {"multipleOf", "maximum", "exclusiveMaximum", "minimum",
                    "exclusiveMinimum"})>>,
            ObjT(<<Opt("multipleOf", TNumber), Opt("maximum", TNumber),
                   Opt("exclusiveMaximum", TNumber), Opt("minimum", TNumber),
                   Opt("exclusiveMinimum", TNumber)>>, <<>>))

NumberSchema ==
    Extends(<<Omit(BaseNumberSchema, {"format"})>>,
            ObjT(<<Opt("type", StrLit("number")),
                   Opt("format", SchemaNumberFormat),
                   Opt("default", TNumber)>>, <<>>))

SchemaIntegerFormat == UnionT(<<StrLit("int32"), StrLit("int64")>>)

IntegerSchema ==
    Extends(<<Omit(BaseNumberSchema, {"format"})>>,
            ObjT(<<Opt("type", StrLit("integer")),
                   Opt("format", SchemaIntegerFormat),
                   Opt("default", TNumber)>>, <<>>))

StringSchema ==
    Extends(<<Omit(TypedSchema,
                   {"type", "format", "maxLength", "minLength", "pattern",
                    "contentEncoding", "contentMediaType", "contentSchema", "default"})>>,
            ObjT(<<Opt("type", StrLit("string")), Opt("format", TString),
                   Opt("maxLength", TNumber), Opt("minLength", TNumber),
                   Opt("pattern", TString), Opt("contentEncoding", TString),
                   Opt("contentMediaType", TString),
                   Opt("contentSchema", Ref("Schema")),
                   Opt("default", TString)>>, <<>>))

BooleanSchema ==
    Extends(<<Omit(TypedSchema, {"default"})>>,
            ObjT(<<Opt("type", StrLit("boolean")), Opt("default", TBoolean)>>, <<>>))

ArraySchema ==
    Extends(<<Omit(TypedSchema,
                   {"type", "prefixItems", "items", "contains", "maxItems", "minItems",
                    "uniqueItems", "maxContains", "minContains", "default"})>>,
            ObjT(<<Opt("type", StrLit("array")),
                   Opt("prefixItems", ArrayT(Ref("Schema"))),
                   Opt("items", Ref("Schema")), Opt("contains", Ref("Schema")),
                   Opt("unevaluatedItems", Ref("Schema")),
                   Opt("maxItems", TNumber), Opt("minItems", TNumber),
                   Opt("uniqueItems", TBoolean), Opt("maxContains", TNumber),
                   Opt("minContains", TNumber), Opt("default", ArrayT(TAny))>>, <<>>))

RegexPattern == TString

ObjectSchema ==
    Extends(<<Omit(TypedSchema,
                   {"type", "properties", "patternProperties", "additionalProperties",
                    "propertyNames", "maxProperties", "minProperties", "required",
                    "dependentRequired", "dependentSchemas", "default"})>>,
            ObjT(<<Opt("type", StrLit("object")),
                   Opt("properties", RecordT(Ref("Schema"))),
                   Opt("patternProperties", RecordT(Ref("Schema"))),
                   Opt("additionalProperties", Ref("Schema")),
                   Opt("propertyNames", Ref("Schema")),
                   Opt("unevaluatedProperties", Ref("Schema")),
                   Opt("maxProperties", TNumber), Opt("minProperties", TNumber),
                   Opt("required", ArrayT(TString)),
                   Opt("dependentRequired", RecordT(ArrayT(TString))),
                   Opt("dependentSchemas", RecordT(Ref("Schema"))),
                   Opt("default", TAny)>>, <<>>))

NormalSchema ==
    UnionT(<<NumberSchema, IntegerSchema, StringSchema, BooleanSchema, ArraySchema,
             ObjectSchema>>)

Schema == UnionT(<<CompositionSchema, NormalSchema, Reference>>)

(***************************************************************************)
(* openapis link.d.ts (part_001)                                           *)
(***************************************************************************)
BaseLink ==
    Extends(<<Extendable>>,
            ObjT(<<Opt("operationRef", TNever), Opt("operationId", TNever),
                   Opt("parameters", RecordT(TAny)), Opt("requestBody", TAny),
                   Opt("description", TString), Opt("server", Server)>>, <<>>))

ReferencedLink ==
    Extends(<<Omit(BaseLink, {"operationRef"})>>,
            ObjT(<<Opt("operationRef", TString)>>, <<>>))

\* Mutant: `operationRef` allowed next to `operationId`.
IdSpecifiedLink_WithOperationRef ==
    Extends(<<Omit(BaseLink, {"operationId", "operationRef"})>>,
            ObjT(<<Opt("operationId", TString), Opt("operationRef", TString)>>, <<>>))

IdSpecifiedLink ==
    Extends(<<Omit(BaseLink, {"operationId"})>>,
            ObjT(<<Opt("operationId", TString)>>, <<>>))

Link == UnionT(<<ReferencedLink, IdSpecifiedLink>>)

(***************************************************************************)
(* openapis info.d.ts, tag.d.ts, openapi.d.ts                              *)
(***************************************************************************)
Contact ==
    Extends(<<Extendable>>,
            ObjT(<<Opt("name", TString), Opt("url", TString), Opt("email", TString)>>,
                 <<>>))

License ==
    Extends(<<Extendable>>,
            ObjT(<<Req("name", TString), Opt("identifier", TString),
                   Opt("url", TString)>>, <<>>))

Info ==
    Extends(<<Extendable>>,
            ObjT(<<Req("title", TString), Opt("summary", TString),
                   Opt("description", TString), Opt("termsOfService", TString),
                   Opt("contact", Contact), Opt("license", License),
                   Req("version", TString)>>, <<>>))

Tag ==
    Extends(<<Extendable>>,
            ObjT(<<Req("name", TString), Opt("description", TString),
                   Opt("externalDocs", ExternalDocs)>>, <<>>))

\* `./schema` is schema.d.ts; Response, RequestBody, SecurityScheme and
\* Callback are declarations no candidate document reaches.
Components ==
    Extends(<<Extendable>>,
            ObjT(<<Opt("schemas", RecordT(UnionT(<<Ref("Schema_v30"), Ref("Reference")>>))),
                   Opt("responses", RecordT(UnionT(<<Opaque("Response"), Ref("Reference")>>))),
                   Opt("parameters", RecordT(UnionT(<<Ref("Parameter"), Ref("Reference")>>))),
                   Opt("examples", RecordT(UnionT(<<Ref("Example"), Ref("Reference")>>))),
                   Opt("requestBodies",
                       RecordT(UnionT(<<Opaque("RequestBody"), Ref("Reference")>>))),
                   Opt("headers", RecordT(UnionT(<<Ref("Header"), Ref("Reference")>>))),
                   Opt("securitySchemes",
                       RecordT(UnionT(<<Opaque("SecurityScheme"), Ref("Reference")>>))),
                   Opt("links", RecordT(UnionT(<<Ref("Link"), Ref("Reference")>>))),
                   Opt("callbacks", RecordT(UnionT(<<Opaque("Callback"), Ref("Reference")>>))),
                   Opt("pathItems", RecordT(UnionT(<<Ref("PathItem"), Ref("Reference")>>)))>>,
                 <<>>))

\* Mutant: `openapi` any string.
OpenAPIVersion_AnyString == TString

\* `3.${string}.${string}`
OpenAPIVersion == TemplateT("3.", ".")

\* Mutant: `paths` required, as OpenAPI 3.0 has it.
OpenAPI_PathsRequired ==
    Extends(<<Extendable>>,
            ObjT(<<Req("openapi", OpenAPIVersion), Req("info", Info),
                   Opt("jsonSchemaDialect", TString), Opt("servers", ArrayT(Server)),
                   Req("paths", Ref("Paths")),
                   Opt("webhooks", RecordT(UnionT(<<Ref("PathItem"), Ref("Reference")>>))),
                   Opt("components", Components),
                   Opt("security", ArrayT(Opaque("SecurityRequirement"))),
                   Opt("tags", ArrayT(Tag)), Opt("externalDocs", ExternalDocs)>>, <<>>))

OpenAPI ==
    Extends(<<Extendable>>,
            ObjT(<<Req("openapi", OpenAPIVersion), Req("info", Info),
                   Opt("jsonSchemaDialect", TString), Opt("servers", ArrayT(Server)),
                   Opt("paths", Ref("Paths")),
                   Opt("webhooks", RecordT(UnionT(<<Ref("PathItem"), Ref("Reference")>>))),
                   Opt("components", Components),
                   Opt("security", ArrayT(Opaque("SecurityRequirement"))),
                   Opt("tags", ArrayT(Tag)), Opt("externalDocs", ExternalDocs)>>, <<>>))

(***************************************************************************)
(* swagger-schema-official info.d.ts, the second part of part_005          *)
(***************************************************************************)
SSO_BaseLicense == Extends(<<SSO_Extendable>>, ObjT(<<Req("name", TString)>>, <<>>))

SSO_EmbeddedLicense ==
    Extends(<<SSO_BaseLicense>>,
            ObjT(<<Opt("identifier", TString), Opt("url", TNever)>>, <<>>))

SSO_LinkedLicense ==
    Extends(<<SSO_BaseLicense>>,
            ObjT(<<Opt("url", TString), Opt("identifier", TNever)>>, <<>>))

SSO_License == UnionT(<<SSO_EmbeddedLicense, SSO_LinkedLicense>>)

(***************************************************************************)
(* The declarations by name.                                               *)
(***************************************************************************)
Resolve(name) ==
    CASE name = "Reference" -> Reference
      [] name = "SSO_Reference" -> SSO_Reference
      [] name = "Reference_v30" -> Reference_v30
      [] name = "Schema_v30" -> Schema_v30
      [] name = "NormalSchema_v30" -> NormalSchema_v30
      [] name = "Example_v30" -> Example_v30
      [] name = "Example" -> Example
      [] name = "SSO_Example" -> SSO_Example
      [] name = "Parameter" -> Parameter
      [] name = "Header" -> Header
      [] name = "MediaType" -> MediaType
      [] name = "MediaTypeMap" -> MediaTypeMap
      [] name = "SSO_Schema" -> SSO_Schema
      [] name = "SSO_NormalSchema" -> SSO_NormalSchema
      [] name = "SSO_CompositionSchema" -> SSO_CompositionSchema
      [] name = "SSO_Parameter" -> SSO_Parameter
      [] name = "SSO_Header" -> SSO_Header
      [] name = "SSO_MediaType" -> SSO_MediaType
      [] name = "SSO_MediaTypeMap" -> SSO_MediaTypeMap
      [] name = "Paths" -> Paths
      [] name = "ExternalDocs" -> ExternalDocs
      [] name = "ExternalDocs_v30" -> ExternalDocs_v30
      [] name = "SSO_ExternalDocs" -> SSO_ExternalDocs
      [] name = "Schema" -> Schema
      [] name = "PathItem" -> PathItem
      [] name = "OpenAPI" -> OpenAPI
      [] name = "SSO_PathItem" -> SSO_PathItem
      [] name = "License" -> License
      [] name = "SSO_License" -> SSO_License
      [] name = "Link" -> Link
      [] name = "SSO_Paths" -> SSO_Paths

(***************************************************************************)
(* The compiler's check of `const x: T = v`.                               *)
(***************************************************************************)
RECURSIVE Flatten(_)
RECURSIVE Members(_)
\* The constituents of a type: a union is flat, a name stands for its
\* declaration.
Members(T) ==
    CASE T.t = "union" -> Flatten(T.of)
      [] T.t = "ref" -> Members(Resolve(T.name))
      [] OTHER -> <<T>>

Flatten(types) ==
    IF types = <<>> THEN <<>> ELSE Members(Head(types)) \o Flatten(Tail(types))

IsObjT(T) == T.t = "object"

\* The index signatures of T that apply to the property name key.
ApplicableIdx(T, key) == {i \in 1..Len(T.idx) : IsPrefix(T.idx[i].pre, key)}

\* isKnownProperty: T declares key, or an index signature of T applies.
Known(T, key) == HasProp(T, key) \/ ApplicableIdx(T, key) # {}

\* The type T gives to the property key: the declared one, else that of the
\* applicable index signatures (their intersection: never wins over any).
PropOrIndexType(T, key) ==
    IF HasProp(T, key) THEN Prop(T, key).type
    ELSE IF \E i \in ApplicableIdx(T, key) : T.idx[i].type = TNever THEN TNever
    ELSE T.idx[CHOOSE i \in ApplicableIdx(T, key) : TRUE].type

RECURSIVE Units(_)
\* The constituents of a type written in place (a property's own type).
Units(T) ==
    IF T.t = "union"
    THEN IF T.of = <<>> THEN <<>>
         ELSE Units(Head(T.of)) \o Units(UnionT(Tail(T.of)))
    ELSE <<T>>

\* Every constituent is a unit type; an optional property's type holds
\* undefined, a unit, so `key?: never` is one.  A named declaration is an
\* object type or a union of them, no unit.
AllUnits(ms, opt) ==
    \A i \in 1..Len(ms) :
        CASE ms[i].t \in {"lit", "boolean"} -> TRUE
          [] ms[i].t = "never" -> opt
          [] OTHER -> FALSE

IsLiteralType(T, opt) == AllUnits(Units(T), opt)

\* The type of a property as a union's constituents compare it.
PropSig(p) == IF p.type = TAny THEN <<TAny, FALSE>> ELSE <<p.type, p.opt>>

\* isDiscriminantProperty: the constituents that declare key do not all give it
\* the same type, and one of them gives it a literal type.
IsDiscriminant(objs, key) ==
    LET decl == {i \in 1..Len(objs) : HasProp(objs[i], key)}
    IN  /\ \E i, j \in decl : PropSig(Prop(objs[i], key)) # PropSig(Prop(objs[j], key))
        /\ \E i \in decl : IsLiteralType(Prop(objs[i], key).type, Prop(objs[i], key).opt)

\* isWeakType: every property optional, no index signature.
IsWeak(T) ==
    /\ Len(T.props) > 0
    /\ Len(T.idx) = 0
    /\ \A i \in 1..Len(T.props) : T.props[i].opt

RECURSIVE Accepts(_, _)
RECURSIVE AcceptsPrim(_, _)
RECURSIVE RelatedMember(_, _)
RECURSIVE Discriminate(_, _, _, _)
RECURSIVE HasExcess(_, _)

\* discriminateTypeByDiscriminableItems: the properties of the literal, in the
\* order written; each discriminant property keeps, of the constituents still
\* included, those whose type for it the value matches, unless none does.
Discriminate(v, objs, n, inc) ==
    IF n > Len(v.f) THEN inc
    ELSE LET fld == v.f[n]
             matched == {m \in inc :
                            /\ Known(objs[m], fld.key)
                            /\ Accepts(fld.val, PropOrIndexType(objs[m], fld.key))}
             next == IF IsDiscriminant(objs, fld.key) /\ matched # {}
                     THEN matched ELSE inc
         IN  Discriminate(v, objs, n + 1, next)

\* hasExcessProperties: against the constituents the discriminants leave, a
\* property none of them knows, or (target a union) whose value fits the
\* type none of them gives it.
HasExcess(v, objs) ==
    LET reduced == Discriminate(v, objs, 1, 1..Len(objs))
    IN  \E n \in 1..Len(v.f) :
            LET key == v.f[n].key
                knowing == {m \in reduced : Known(objs[m], key)}
                order == SelectSeq([m \in 1..Len(objs) |-> m], LAMBDA m : m \in knowing)
                types == [a \in 1..Len(order) |-> PropOrIndexType(objs[order[a]], key)]
            IN  \/ knowing = {}
                \/ Len(objs) > 1 /\ ~Accepts(v.f[n].val, UnionT(types))

\* structuredTypeRelatedTo, source an object literal and target an object
\* type: the required properties are there, every property the target
\* declares has a value of its type, every property an index signature
\* applies to has a value of the signature's type, and a weak target shares a
\* property with the source.
RelatedMember(v, T) ==
    /\ \A i \in 1..Len(T.props) : T.props[i].opt \/ HasKey(v, T.props[i].key)
    /\ \A n \in 1..Len(v.f) :
          /\ HasProp(T, v.f[n].key) => Accepts(v.f[n].val, Prop(T, v.f[n].key).type)
          /\ \A i \in ApplicableIdx(T, v.f[n].key) : Accepts(v.f[n].val, T.idx[i].type)
    /\ (IsWeak(T) /\ Len(v.f) > 0) => \E n \in 1..Len(v.f) : HasProp(T, v.f[n].key)

\* A string against `pre${string}sep${string}`: it begins with pre and sep
\* occurs in what follows (each ${string} may be empty).
MatchesTemplate(str, T) ==
    /\ IsPrefix(T.pre, str)
    /\ \E i \in (Len(T.pre) + 1)..(Len(str) - Len(T.sep) + 1) :
          SubSeq(str, i, i + Len(T.sep) - 1) = T.sep

\* A value that is no object literal against one constituent.
AcceptsPrim(v, T) ==
    CASE T.t = "string" -> v.k = "str"
      [] T.t = "number" -> v.k = "num"
      [] T.t = "boolean" -> v.k = "bool"
      [] T.t = "lit" -> v = T.v
      [] T.t = "template" -> v.k = "str" /\ MatchesTemplate(v.s, T)
      [] T.t = "array" -> v.k = "arr" /\ \A i \in 1..Len(v.a) : Accepts(v.a[i], T.of)
      [] OTHER -> FALSE

\* An object literal against the object constituents of the target: it passes
\* the excess property check against them all and is related to one.
AcceptsObj(v, objs) ==
    /\ ~HasExcess(v, objs)
    /\ \E i \in 1..Len(objs) : RelatedMember(v, objs[i])

\* A value against the constituents of the target: any takes everything.
AcceptsMembers(v, ms) ==
    IF \E i \in 1..Len(ms) : ms[i].t = "any" THEN TRUE
    ELSE IF v.k = "obj" THEN AcceptsObj(v, SelectSeq(ms, IsObjT))
    ELSE \E i \in 1..Len(ms) : AcceptsPrim(v, ms[i])

\* isRelatedTo, source the fresh literal v.
Accepts(v, T) == AcceptsMembers(v, Members(T))

(***************************************************************************)
(* Candidate documents.                                                    *)
(***************************************************************************)
\* The most fields a candidate object carries.
MaxFields == 6

\* A slot: a key and the values tried for it.
Slot(key, vals) == [key |-> key, vals |-> vals]

RECURSIVE BuildN(_, _)
\* Every choice of at most one value per slot, the slots in order, n fields
\* at most.
BuildN(slots, n) ==
    IF slots = <<>> THEN {<<>>}
    ELSE LET rest == BuildN(Tail(slots), n)
             h == Head(slots)
         IN  rest \cup {<<Field(h.key, x)>> \o r : x \in h.vals, r \in {q \in rest : Len(q) < n}}

Build(slots) == BuildN(slots, MaxFields)

Objects(slots) == {Obj(f) : f \in Build(slots)}

ReferenceSlots ==
    <<Slot("$ref", {Str("#/components/schemas/Pet"), Num(1)}),
      Slot("summary", {Str("a pet"), Num(1)}),
      Slot("description", {Str("a pet")}),
      Slot("type", {Str("object")}),
      Slot("x-internal-id", {Num(1)})>>

Accepted == verdict = "accepted"
Rejected == verdict = "rejected"
Checked == verdict # "pending"

(***************************************************************************)
(* The state machine: a candidate node and the type it is assigned to are  *)
(* drawn, and Check is the compiler's pass over the assignment.            *)
(***************************************************************************)
Check ==
    /\ verdict = "pending"
    /\ verdict' = IF Accepts(node, Resolve(target)) THEN "accepted" ELSE "rejected"
    /\ UNCHANGED <<target, node>>

Next == Check

ReferenceTargets == {"Reference", "SSO_Reference", "Reference_v30"}

InitReference ==
    /\ target \in ReferenceTargets
    /\ node \in Objects(ReferenceSlots)
    /\ verdict = "pending"

SpecReference == InitReference /\ [][Next]_vars

ExampleSlots ==
    <<Slot("summary", {Str("a pet"), Num(1)}),
      Slot("description", {Str("a pet")}),
      Slot("value", {Str("Rex"), Num(1), Null, Obj(<<Field("name", Str("Rex"))>>)}),
      Slot("externalValue", {Str("https://example.org/pet.json"), Num(1)}),
      Slot("x-internal-id", {Num(1)}),
      Slot("name", {Str("Rex")})>>

ExampleTargets == {"Example_v30", "Example", "SSO_Example"}

InitExample ==
    /\ target \in ExampleTargets
    /\ node \in Objects(ExampleSlots)
    /\ verdict = "pending"

SpecExample == InitExample /\ [][Next]_vars

StringSchemaNode == Obj(<<Field("type", Str("string"))>>)
ExamplesNode == Obj(<<Field("a", Obj(<<Field("value", Num(1))>>))>>)
ContentNode == Obj(<<Field("application/json", Obj(<<Field("schema", StringSchemaNode)>>))>>)

ParameterSlots ==
    <<Slot("name", {Str("id")}),
      Slot("in", {Str("path"), Str("query"), Str("header"), Str("cookie")}),
      Slot("required", {Bool(TRUE), Bool(FALSE)}),
      Slot("schema", {StringSchemaNode}),
      Slot("content", {ContentNode}),
      Slot("example", {Num(1)}),
      Slot("examples", {ExamplesNode})>>

ParameterTargets == {"Parameter", "SSO_Parameter"}

InitParameter ==
    /\ target \in ParameterTargets
    /\ node \in Objects(ParameterSlots)
    /\ verdict = "pending"

SpecParameter == InitParameter /\ [][Next]_vars

MediaTypeSlots ==
    <<Slot("schema", {StringSchemaNode, Num(1)}),
      Slot("example", {Num(1), Str("Rex"), Obj(<<Field("name", Str("Rex"))>>)}),
      Slot("examples", {ExamplesNode, Obj(<<>>)}),
      Slot("encoding", {Obj(<<Field("a", Obj(<<Field("contentType", Str("text/plain"))>>))>>)}),
      Slot("x-internal-id", {Num(1)})>>

MediaTypeTargets == {"MediaType", "SSO_MediaType"}

InitMediaType ==
    /\ target \in MediaTypeTargets
    /\ node \in Objects(MediaTypeSlots)
    /\ verdict = "pending"

SpecMediaType == InitMediaType /\ [][Next]_vars

\* The pieces the path keys tried are made of, and the most pieces of a key.
KeyPieces == <<"/", "x", "-">>
MaxKeyLen == 2

RECURSIVE KeysOfLen(_)
\* The keys of n pieces, in a fixed order.
KeysOfLen(n) ==
    IF n = 0 THEN <<"">>
    ELSE LET shorter == KeysOfLen(n - 1)
             m == Len(KeyPieces)
         IN  [i \in 1..(Len(shorter) * m) |->
                 shorter[((i - 1) \div m) + 1] \o KeyPieces[((i - 1) % m) + 1]]

RECURSIVE KeysUpTo(_)
KeysUpTo(n) == IF n = 0 THEN <<>> ELSE KeysUpTo(n - 1) \o KeysOfLen(n)

\* The most entries of a candidate Paths object.
MaxPaths == 2

PathItemNodes == {Obj(<<>>), Str("get")}

\* The keys tried: the sample documents' forms, and every short key.
PathKeys == <<"/pets", "pets", "x-pets">> \o KeysUpTo(MaxKeyLen)

\* The choices of n of the keys, in the order of PathKeys.
KeyChoices(n) ==
    {s \in [1..n -> 1..Len(PathKeys)] : \A a \in 1..n : a < n => s[a] < s[a + 1]}

\* A candidate Paths object: the chosen keys, each with a candidate PathItem.
PathsNode(s, v) == Obj([a \in 1..Len(s) |-> Field(PathKeys[s[a]], v[a])])

PathsTargets == {"Paths", "SSO_Paths"}

InitPaths ==
    /\ target \in PathsTargets
    /\ \E n \in 0..MaxPaths : \E s \in KeyChoices(n), v \in [1..n -> PathItemNodes] :
            node = PathsNode(s, v)
    /\ verdict = "pending"

SpecPaths == InitPaths /\ [][Next]_vars

\* The extension keys tried, reserved and not, and a key that is no extension.
ExtensionKeys ==
    <<"x-oai-a", "x-oas-a", "x-oai-", "x-oas-", "x-oai", "x-oa", "x-", "x-internal-id",
      "xoai-a">>

ExtensionValues ==
    {Str("a"), Num(1), Bool(TRUE), Null, Arr(<<Num(1)>>), Obj(<<Field("a", Num(1))>>)}

\* The most extension keys of a candidate.
MaxExtensions == 2

ExtensionChoices(n) ==
    {s \in [1..n -> 1..Len(ExtensionKeys)] : \A a \in 1..n : a < n => s[a] < s[a + 1]}

\* A candidate ExternalDocs object: `url`, then the chosen keys.
ExtendedNode(s, v) ==
    Obj(<<Field("url", Str("https://example.org"))>>
        \o [a \in 1..Len(s) |-> Field(ExtensionKeys[s[a]], v[a])])

ExtendableTargets == {"ExternalDocs", "ExternalDocs_v30", "SSO_ExternalDocs"}

InitExtendable ==
    /\ target \in ExtendableTargets
    /\ \E n \in 0..MaxExtensions :
          \E s \in ExtensionChoices(n), v \in [1..n -> ExtensionValues] :
              node = ExtendedNode(s, v)
    /\ verdict = "pending"

SpecExtendable == InitExtendable /\ [][Next]_vars

SchemaSlots ==
    <<Slot("type", {Str("string"), Str("number"), Str("integer"), Str("null"),
                    Str("any"), Arr(<<Str("string"), Str("null")>>),
                    Arr(<<Str("number")>>)}),
      Slot("description", {Str("a")}),
      Slot("nullable", {Bool(TRUE)}),
      Slot("exclusiveMaximum", {Num(1), Bool(TRUE)}),
      Slot("exclusiveMinimum", {Num(1), Bool(FALSE)}),
      Slot("x-internal-id", {Num(1), Str("a"), Null, Obj(<<Field("a", Num(1))>>)})>>

SchemaTargets == {"Schema", "Schema_v30", "SSO_Schema"}

InitSchema ==
    /\ target \in SchemaTargets
    /\ node \in Objects(SchemaSlots)
    /\ verdict = "pending"

SpecSchema == InitSchema /\ [][Next]_vars

InfoNode == Obj(<<Field("title", Str("Pets")), Field("version", Str("1.0.0"))>>)
ReferenceNode == Obj(<<Field("$ref", Str("#/components/pathItems/pet"))>>)

OpenAPISlots ==
    <<Slot("openapi", {Str("3.0.0"), Str("3.0.1"), Str("3.0.3"), Str("3.1.0"), Str("3.1"),
                       Str("2.0"), Str("3."), Str("3.."), Str("v3.0.0"), Num(3)}),
      Slot("info", {InfoNode}),
      Slot("jsonSchemaDialect", {Str("https://json-schema.org/draft/2020-12/schema")}),
      Slot("paths", {Obj(<<>>), Obj(<<Field("/pets", Obj(<<>>))>>)}),
      Slot("webhooks", {Obj(<<Field("newPet", Obj(<<Field("summary", Str("a"))>>))>>),
                        Obj(<<Field("newPet", ReferenceNode)>>),
                        Obj(<<Field("newPet", Obj(<<>>)), Field("oldPet", ReferenceNode)>>),
                        Obj(<<Field("newPet", Str("a"))>>)}),
      Slot("components", {Obj(<<>>),
                          Obj(<<Field("schemas",
                                      Obj(<<Field("Pet", StringSchemaNode)>>))>>)})>>

OpenAPITargets == {"OpenAPI"}

InitOpenAPI ==
    /\ target \in OpenAPITargets
    /\ node \in Objects(OpenAPISlots)
    /\ verdict = "pending"

SpecOpenAPI == InitOpenAPI /\ [][Next]_vars

SchemaReferenceNode == Obj(<<Field("$ref", Str("#/components/schemas/Pet"))>>)

SSOSchemaSlots ==
    <<Slot("type", {Str("object"), Str("array"), Str("string")}),
      Slot("description", {Str("subscription information")}),
      Slot("required", {Arr(<<Str("subscriptionId")>>)}),
      Slot("properties", {Obj(<<Field("subscriptionId", StringSchemaNode)>>)}),
      Slot("items", {StringSchemaNode, SchemaReferenceNode, Arr(<<StringSchemaNode>>),
                     Arr(<<SchemaReferenceNode>>),
                     Obj(<<Field("oneOf", Arr(<<StringSchemaNode>>))>>)}),
      Slot("example", {Str("a")})>>

SSOSchemaTargets == {"SSO_Schema"}

InitSSOSchema ==
    /\ target \in SSOSchemaTargets
    /\ node \in Objects(SSOSchemaSlots)
    /\ verdict = "pending"

SpecSSOSchema == InitSSOSchema /\ [][Next]_vars

ParameterNode(name, in) ==
    Obj(<<Field("name", Str(name)), Field("in", Str(in)), Field("schema", StringSchemaNode)>>)

ParameterNodes ==
    {ParameterNode(name, in) : name \in {"id", "limit"}, in \in {"query", "header"}}
    \cup {Obj(<<Field("name", Str("id")), Field("in", Str("path")),
                Field("required", Bool(TRUE)), Field("schema", StringSchemaNode)>>),
          Obj(<<Field("name", Str("id")), Field("in", Str("path")),
                Field("schema", StringSchemaNode)>>),
          Obj(<<Field("$ref", Str("#/components/parameters/id"))>>)}

\* The most parameters of a candidate list.
MaxParameters == 2

PathItemNode(ps, summary) ==
    Obj((IF summary THEN <<Field("summary", Str("a"))>> ELSE <<>>)
        \o <<Field("parameters", Arr(ps))>>)

PathItemTargets == {"PathItem", "SSO_PathItem"}

InitPathItem ==
    /\ target \in PathItemTargets
    /\ \E n \in 0..MaxParameters :
          \E ps \in [1..n -> ParameterNodes], summary \in BOOLEAN :
              node = PathItemNode(ps, summary)
    /\ verdict = "pending"

SpecPathItem == InitPathItem /\ [][Next]_vars

ConditionalSlots ==
    <<Slot("type", {Str("string"), Str("object")}),
      Slot("description", {Str("a")}),
      Slot("$dynamicRef", {Str("#node")}),
      Slot("if", {StringSchemaNode, Obj(<<>>)}),
      Slot("then", {StringSchemaNode}),
      Slot("else", {StringSchemaNode}),
      Slot("not", {StringSchemaNode})>>

ConditionalTargets == {"Schema"}

InitConditional ==
    /\ target \in ConditionalTargets
    /\ node \in Objects(ConditionalSlots)
    /\ verdict = "pending"

SpecConditional == InitConditional /\ [][Next]_vars

LicenseSlots ==
    <<Slot("name", {Str("Apache 2.0"), Num(1)}),
      Slot("identifier", {Str("Apache-2.0"), Num(1)}),
      Slot("url", {Str("https://www.apache.org/licenses/LICENSE-2.0.html"), Num(1)}),
      Slot("x-internal-id", {Num(1)})>>

LicenseTargets == {"License", "SSO_License"}

InitLicense ==
    /\ target \in LicenseTargets
    /\ node \in Objects(LicenseSlots)
    /\ verdict = "pending"

SpecLicense == InitLicense /\ [][Next]_vars

LinkSlots ==
    <<Slot("operationRef", {Str("#/paths/~1users/get"), Num(1)}),
      Slot("operationId", {Str("getRepository"), Num(1)}),
      Slot("parameters", {Obj(<<Field("username", Str("$response.body#/username"))>>)}),
      Slot("requestBody", {Str("$response.body")}),
      Slot("description", {Str("a")}),
      Slot("x-internal-id", {Num(1)})>>

LinkTargets == {"Link"}

InitLink ==
    /\ target \in LinkTargets
    /\ node \in Objects(LinkSlots)
    /\ verdict = "pending"

SpecLink == InitLink /\ [][Next]_vars

MediaTypeKeys == <<"application/json", "application/xml", "text/plain">>

MediaTypeNodes == {Obj(<<Field("schema", StringSchemaNode)>>), Obj(<<>>)}

\* The most entries of a candidate `content` map.
MaxContent == 2

MediaTypeChoices(n) ==
    {s \in [1..n -> 1..Len(MediaTypeKeys)] : \A a \in 1..n : a < n => s[a] < s[a + 1]}

ContentParameterNode(in, s, v) ==
    Obj(<<Field("name", Str("id")), Field("in", Str(in)),
          Field("content", Obj([a \in 1..Len(s) |-> Field(MediaTypeKeys[s[a]], v[a])]))>>)

InitContent ==
    /\ target \in ParameterTargets
    /\ \E in \in {"query", "header", "cookie"}, n \in 0..MaxContent :
          \E s \in MediaTypeChoices(n), v \in [1..n -> MediaTypeNodes] :
              node = ContentParameterNode(in, s, v)
    /\ verdict = "pending"

SpecContent == InitContent /\ [][Next]_vars

StyleSlots ==
    <<Slot("name", {Str("id")}),
      Slot("in", {Str("path"), Str("query"), Str("header"), Str("cookie")}),
      Slot("required", {Bool(TRUE)}),
      Slot("style", {Str("matrix"), Str("label"), Str("form"), Str("simple"),
                     Str("spaceDelimited"), Str("pipeDelimited"), Str("deepObject"),
                     Str("tabDelimited")}),
      Slot("schema", {StringSchemaNode}),
      Slot("content", {ContentNode})>>

InitStyle ==
    /\ target \in ParameterTargets
    /\ node \in Objects(StyleSlots)
    /\ verdict = "pending"

SpecStyle == InitStyle /\ [][Next]_vars

QueryOnlySlots ==
    <<Slot("name", {Str("id")}),
      Slot("in", {Str("path"), Str("query"), Str("header"), Str("cookie")}),
      Slot("required", {Bool(TRUE)}),
      Slot("allowEmptyValue", {Bool(TRUE), Bool(FALSE)}),
      Slot("allowReserved", {Bool(TRUE), Bool(FALSE)}),
      Slot("schema", {StringSchemaNode}),
      Slot("content", {ContentNode})>>

QueryOnlyTargets == {"Parameter"}

InitQueryOnly ==
    /\ target \in QueryOnlyTargets
    /\ node \in Objects(QueryOnlySlots)
    /\ verdict = "pending"

SpecQueryOnly == InitQueryOnly /\ [][Next]_vars

IsStr(v) == v.k = "str"
Is(v, key, val) == HasKey(v, key) /\ Val(v, key) = val

(***************************************************************************)
(* Parameter                                                               *)
(***************************************************************************)
\* C1: a Parameter with `in: 'path'` is accepted only when `required` is
\* present and true, in the openapis Parameter (schema-based and
\* content-based) and in the swagger-schema-official Parameter.
C1_PathParameterRequired ==
    (Accepted /\ target \in ParameterTargets /\ Is(node, "in", Str("path")))
    => Is(node, "required", Bool(TRUE))

\* A content-based path parameter without `required`, or with
\* `required: false`, has been rejected.
C1_Witness ==
    /\ Rejected
    /\ target = "Parameter"
    /\ Is(node, "in", Str("path"))
    /\ Keys(node) \in {{"name", "in", "content"}, {"name", "in", "required", "content"}}

\* C2: in the openapis Parameter, whatever the location, a Parameter that
\* carries both `schema` and `content` is rejected.
C2_SchemaExcludesContent ==
    (Checked /\ target = "Parameter" /\ HasKey(node, "schema") /\ HasKey(node, "content"))
    => Rejected

\* A path parameter, well formed but for carrying both, has been rejected.
C2_Witness ==
    /\ Rejected
    /\ target = "Parameter"
    /\ Keys(node) = {"name", "in", "required", "schema", "content"}
    /\ Is(node, "in", Str("path"))
    /\ Is(node, "required", Bool(TRUE))

\* C3: every accepted Parameter carries exactly one of `schema` and
\* `content`; one with neither is rejected.
C3_ExactlyOneOfSchemaContent ==
    (Accepted /\ target = "Parameter")
    => (HasKey(node, "schema") # HasKey(node, "content"))

\* C4: in the swagger-schema-official Parameter, a Parameter that carries both
\* `schema` and `content` is rejected.
C4_SSOSchemaExcludesContent ==
    (Checked /\ target = "SSO_Parameter" /\ HasKey(node, "schema") /\ HasKey(node, "content"))
    => Rejected

\* C7: a Parameter that carries both `example` and `examples` is rejected, in
\* the openapis Parameter and in the swagger-schema-official Parameter.
C7_ExampleExcludesExamples ==
    (Checked /\ target \in ParameterTargets
        /\ HasKey(node, "example") /\ HasKey(node, "examples"))
    => Rejected

(***************************************************************************)
(* MediaType                                                               *)
(***************************************************************************)
\* C6: in the openapis MediaType, a MediaType that carries both `example` and
\* `examples` is rejected, and one with `schema` and exactly one of the two is
\* accepted.
C6_MediaTypeExampleOrExamples ==
    (Checked /\ target = "MediaType")
    => /\ (HasKey(node, "example") /\ HasKey(node, "examples")) => Rejected
       /\ (/\ Keys(node) \in {{"schema", "example"}, {"schema", "examples"}}
           /\ Is(node, "schema", StringSchemaNode)
           /\ HasKey(node, "examples") => Val(node, "examples") = ExamplesNode)
          => Accepted

\* A MediaType with a schema, an example and an examples map has been rejected.
C6_Witness ==
    /\ Rejected
    /\ target = "MediaType"
    /\ Keys(node) = {"schema", "example", "examples"}
    /\ Is(node, "schema", StringSchemaNode)
    /\ Is(node, "examples", ExamplesNode)

(***************************************************************************)
(* Paths                                                                   *)
(***************************************************************************)
IsPathKey(key) == IsPrefix("/", key)
IsExtensionKey(key) == IsPrefix("x-", key)

\* C10: a Paths object is accepted only if every key of it begins with `/` or
\* is an `x-` key, in the openapis Paths and the swagger-schema-official
\* Paths.
C10_PathsKeys ==
    (Accepted /\ target \in PathsTargets)
    => \A key \in Keys(node) : IsPathKey(key) \/ IsExtensionKey(key)

\* A Paths object with the key `pets` next to the key `/` has been rejected.
C10_Witness ==
    /\ Rejected
    /\ Keys(node) = {"pets", "/"}
    /\ \A key \in Keys(node) : Val(node, key) = Obj(<<>>)

(***************************************************************************)
(* Example                                                                 *)
(***************************************************************************)
\* C5: an Example that carries both `value` and `externalValue` is rejected,
\* in the openapis 3.0 and 3.1 Example unions and in the
\* swagger-schema-official Example union.
C5_ValueExcludesExternalValue ==
    (Checked /\ target \in ExampleTargets
        /\ HasKey(node, "value") /\ HasKey(node, "externalValue"))
    => Rejected

(***************************************************************************)
(* Reference                                                               *)
(***************************************************************************)
\* C8: an object checked against Reference is accepted only if it has a
\* string `$ref` and every other key it carries is `summary` or
\* `description`.
C8_ReferenceShape ==
    (Accepted /\ target \in {"Reference", "SSO_Reference"})
    => /\ HasKey(node, "$ref")
       /\ IsStr(Val(node, "$ref"))
       /\ Keys(node) \subseteq {"$ref", "summary", "description"}

\* A Reference with an `x-` sibling next to a string `$ref` has been rejected.
C8_Witness ==
    /\ Rejected
    /\ target = "Reference"
    /\ Keys(node) = {"$ref", "x-internal-id"}
    /\ IsStr(Val(node, "$ref"))

\* C9: under the OAS 3.0.3 declarations, a Reference with any sibling next to
\* `$ref`, `summary` and `description` included, is rejected.
C9_NoSiblingIn30 ==
    (Accepted /\ target = "Reference_v30") => Keys(node) = {"$ref"}


(***************************************************************************)
(* Extendable                                                              *)
(***************************************************************************)
IsReservedKey(key) == IsPrefix("x-oai-", key) \/ IsPrefix("x-oas-", key)
HasReservedKey(v) == \E key \in Keys(v) : IsReservedKey(key)
OnlyExtensionKeys(v) == \A key \in Keys(v) \ {"url"} : IsExtensionKey(key)

C12_SchemaExtension ==
    (/\ Checked
     /\ target \in SchemaTargets
     /\ Is(node, "type", Str("string"))
     /\ Keys(node) = {"type", "x-internal-id"})
    => Accepted


(***************************************************************************)
(* OpenAPI                                                                 *)
(***************************************************************************)
\* The text `3.`, a component, a dot, a component.
IsVersion3(str) ==
    /\ Len(str) >= 3
    /\ SubSeq(str, 1, 2) = "3."
    /\ \E i \in 3..Len(str) : SubSeq(str, i, i) = "."

HasVersion3(v) ==
    HasKey(v, "openapi") /\ IsStr(Val(v, "openapi")) /\ IsVersion3(Val(v, "openapi").s)

\* C13: an accepted OpenAPI document has an `openapi` string of the form
\* 3.x.y; a document of `openapi` and `info` alone is accepted with `3.0.0`,
\* `3.0.1` and `3.1.0` and rejected with `2.0` and `3.1`; a document without
\* `openapi` is rejected.
C13_OpenapiVersion ==
    (Checked /\ target = "OpenAPI")
    => /\ Accepted => HasVersion3(node)
       /\ (/\ Keys(node) = {"openapi", "info"}
           /\ Val(node, "openapi") \in {Str("3.0.0"), Str("3.0.1"), Str("3.1.0")})
          => Accepted
       /\ (/\ HasKey(node, "openapi")
           /\ Val(node, "openapi") \in {Str("2.0"), Str("3.1")})
          => Rejected
       /\ ~HasKey(node, "openapi") => Rejected

\* A document whose `openapi` is `3.1`, with `info`, has been rejected.
C13_Witness ==
    /\ Rejected
    /\ target = "OpenAPI"
    /\ Keys(node) = {"openapi", "info"}
    /\ Val(node, "openapi") = Str("3.1")


\* C14: a document whose `openapi` is 3.0.x and that carries `webhooks` or
\* `jsonSchemaDialect` is rejected.
C14_VersionGatedKeys ==
    (/\ Checked
     /\ target = "OpenAPI"
     /\ HasKey(node, "openapi")
     /\ Val(node, "openapi") \in {Str("3.0.0"), Str("3.0.1"), Str("3.0.3")}
     /\ (HasKey(node, "webhooks") \/ HasKey(node, "jsonSchemaDialect")))
    => Rejected

\* Every entry of the webhooks map is an object (a PathItem or a Reference).
WebhooksOfObjects(v) ==
    /\ HasKey(v, "webhooks")
    /\ \A i \in 1..Len(Val(v, "webhooks").f) : Val(v, "webhooks").f[i].val.k = "obj"

\* C17: a 3.1.0 document of `openapi`, `info` and `webhooks`, with or without
\* `components` and with no `paths`, is accepted, whether its webhooks entries
\* are PathItems or References.
C17_PathsOptional ==
    (/\ Checked
     /\ target = "OpenAPI"
     /\ {"openapi", "info", "webhooks"} \subseteq Keys(node)
     /\ Keys(node) \subseteq {"openapi", "info", "webhooks", "components"}
     /\ Val(node, "openapi") = Str("3.1.0")
     /\ WebhooksOfObjects(node))
    => Accepted

\* A document without `paths` whose webhooks hold a PathItem and a Reference
\* has been accepted.
C17_Witness ==
    /\ Accepted
    /\ target = "OpenAPI"
    /\ Keys(node) = {"openapi", "info", "webhooks", "components"}
    /\ Val(node, "openapi") = Str("3.1.0")
    /\ Keys(Val(node, "webhooks")) = {"newPet", "oldPet"}


(***************************************************************************)
(* Schema of swagger-schema-official                                       *)
(***************************************************************************)
\* C15: a swagger-schema-official Schema object with no `type` key, only
\* keys among `description`, `required` and `properties`, is accepted.
C15_SchemaWithoutType ==
    (/\ Checked
     /\ target = "SSO_Schema"
     /\ Keys(node) # {}
     /\ Keys(node) \subseteq {"description", "required", "properties"})
    => Accepted

\* C16: a swagger-schema-official array schema whose `items` is one schema
\* object, `{type: 'string'}` or a `{$ref}` Reference, is accepted.
C16_ItemsSingleSchema ==
    (/\ Checked
     /\ target = "SSO_Schema"
     /\ Keys(node) = {"type", "items"}
     /\ Val(node, "type") = Str("array")
     /\ Val(node, "items") \in {StringSchemaNode, SchemaReferenceNode})
    => Accepted


(***************************************************************************)
(* PathItem                                                                *)
(***************************************************************************)
SameParameter(p, q) ==
    /\ HasKey(p, "name") /\ HasKey(q, "name") /\ Val(p, "name") = Val(q, "name")
    /\ HasKey(p, "in") /\ HasKey(q, "in") /\ Val(p, "in") = Val(q, "in")

HasDuplicateParameter(v) ==
    \E i, j \in 1..Len(Val(v, "parameters").a) :
        i < j /\ SameParameter(Val(v, "parameters").a[i], Val(v, "parameters").a[j])

\* C18: a PathItem whose `parameters` list holds two Parameter objects of the
\* same `name` and the same `in` is rejected.
C18_ParametersDistinct ==
    (Checked /\ target \in PathItemTargets /\ HasDuplicateParameter(node)) => Rejected


(***************************************************************************)
(* Schema, 3.0 against 3.1                                                 *)
(***************************************************************************)
IsNumberSchemaNode(v) == HasKey(v, "type") /\ Val(v, "type") \in {Str("number"), Str("integer")}

ExclusiveBounds(v) ==
    {Val(v, key) : key \in Keys(v) \cap {"exclusiveMaximum", "exclusiveMinimum"}}

\* C19: on a number or integer schema, the 3.0 model rejects a numeric
\* `exclusiveMaximum` or `exclusiveMinimum` and accepts boolean ones; the 3.1
\* model rejects a boolean one and accepts numeric ones.
C19_ExclusiveBounds ==
    (/\ Checked
     /\ target \in {"Schema_v30", "Schema"}
     /\ IsNumberSchemaNode(node)
     /\ ExclusiveBounds(node) # {})
    => /\ (target = "Schema_v30" /\ \E b \in ExclusiveBounds(node) : b.k = "num")
          => Rejected
       /\ (target = "Schema" /\ \E b \in ExclusiveBounds(node) : b.k = "bool")
          => Rejected
       /\ (/\ Keys(node) \subseteq {"type", "exclusiveMaximum", "exclusiveMinimum"}
           /\ \A b \in ExclusiveBounds(node) :
                 b.k = (IF target = "Schema" THEN "num" ELSE "bool"))
          => Accepted

\* A 3.1 number schema with a numeric `exclusiveMaximum` has been accepted.
C19_Witness ==
    /\ Accepted
    /\ target = "Schema"
    /\ Keys(node) = {"type", "exclusiveMaximum"}
    /\ Val(node, "type") = Str("number")
    /\ Val(node, "exclusiveMaximum") = Num(1)


IsNullType(t) == t = Str("null") \/ (t.k = "arr" /\ \E i \in 1..Len(t.a) : t.a[i] = Str("null"))

\* C20: a 3.1 Schema object whose `type` is the name `'null'` or an array of
\* type names holding `'null'` is accepted; a 3.0 Schema object whose `type`
\* is an array is rejected, and one with `nullable: true` accepted.
C20_NullType ==
    (Checked /\ target \in {"Schema_v30", "Schema"} /\ HasKey(node, "type"))
    => /\ (/\ target = "Schema"
           /\ Keys(node) \subseteq {"type", "description"}
           /\ IsNullType(Val(node, "type")))
          => Accepted
       /\ (target = "Schema_v30" /\ Val(node, "type").k = "arr") => Rejected
       /\ (/\ target = "Schema_v30"
           /\ Keys(node) = {"type", "nullable"}
           /\ Val(node, "type") \in {Str("string"), Str("number"), Str("integer")})
          => Accepted


\* C21: a 3.1 Schema object that uses the conditional keyword `if`, alone or
\* with `then` and `else`, is accepted.
C21_ConditionalSchema ==
    (/\ Checked
     /\ target = "Schema"
     /\ HasKey(node, "if")
     /\ Keys(node) \subseteq {"if", "then", "else", "description"})
    => Accepted


(***************************************************************************)
(* License                                                                 *)
(***************************************************************************)
\* C22: a License with both `identifier` and `url` is rejected, in the 3.1
\* model and in the swagger-schema-official model; a License of strings with
\* `name` alone, or `name` and one of the two, is accepted.
C22_IdentifierExcludesUrl ==
    (Checked /\ target \in LicenseTargets)
    => /\ (HasKey(node, "identifier") /\ HasKey(node, "url")) => Rejected
       /\ (/\ HasKey(node, "name")
           /\ Keys(node) \in {{"name"}, {"name", "identifier"}, {"name", "url"}}
           /\ \A key \in Keys(node) : IsStr(Val(node, key)))
          => Accepted


(***************************************************************************)
(* Link                                                                    *)
(***************************************************************************)
\* C23: a Link with both `operationRef` and `operationId` is rejected; a Link
\* with a string `operationId` alone or with `parameters`, or with a string
\* `operationRef` alone, is accepted.
C23_OperationRefExcludesOperationId ==
    (Checked /\ target = "Link")
    => /\ (HasKey(node, "operationRef") /\ HasKey(node, "operationId")) => Rejected
       /\ (/\ Keys(node) \in {{"operationId"}, {"operationId", "parameters"}}
           /\ IsStr(Val(node, "operationId")))
          => Accepted
       /\ (Keys(node) = {"operationRef"} /\ IsStr(Val(node, "operationRef")))
          => Accepted

\* A Link with string `operationRef` and `operationId` has been rejected.
C23_Witness ==
    /\ Rejected
    /\ target = "Link"
    /\ Keys(node) = {"operationRef", "operationId", "parameters"}
    /\ IsStr(Val(node, "operationRef"))
    /\ IsStr(Val(node, "operationId"))


(***************************************************************************)
(* Parameter: content, style, allowEmptyValue and allowReserved            *)
(***************************************************************************)
\* C24: a Parameter whose `content` map has no entry, or two or more, is
\* rejected.
C24_ContentOneEntry ==
    (/\ Checked
     /\ target \in ParameterTargets
     /\ HasKey(node, "content")
     /\ Len(Val(node, "content").f) # 1)
    => Rejected


\* The styles of a location.
AllowedStyles(in) ==
    CASE in = Str("path") -> {Str("simple"), Str("label"), Str("matrix")}
      [] in = Str("query") ->
            {Str("form"), Str("spaceDelimited"), Str("pipeDelimited"), Str("deepObject")}
      [] in = Str("header") -> {Str("simple")}
      [] in = Str("cookie") -> {Str("form")}
      [] OTHER -> {}

\* C25: an accepted Parameter that has a `style` has one of the styles of its
\* location, in both models, and a schema-based parameter with a style of its
\* location is accepted.
C25_StyleOfLocation ==
    (Checked /\ target \in ParameterTargets /\ HasKey(node, "style"))
    => /\ Accepted => /\ HasKey(node, "in")
                      /\ Val(node, "style") \in AllowedStyles(Val(node, "in"))
       /\ (/\ Keys(node) = {"name", "in", "required", "style", "schema"}
           /\ Val(node, "style") \in AllowedStyles(Val(node, "in")))
          => Accepted

\* A header parameter with `style: 'form'` has been rejected.
C25_Witness ==
    /\ Rejected
    /\ target = "Parameter"
    /\ Keys(node) = {"name", "in", "style", "schema"}
    /\ Val(node, "in") = Str("header")
    /\ Val(node, "style") = Str("form")


\* C26: an accepted openapis Parameter that carries `allowEmptyValue` or
\* `allowReserved` is a query parameter, and a query parameter carrying both
\* is accepted with `schema` and with `content`.
C26_QueryOnlyKeys ==
    (/\ Checked
     /\ target = "Parameter"
     /\ (HasKey(node, "allowEmptyValue") \/ HasKey(node, "allowReserved")))
    => /\ Accepted => Is(node, "in", Str("query"))
       /\ (/\ Is(node, "in", Str("query"))
           /\ Keys(node) \in {{"name", "in", "allowEmptyValue", "allowReserved", "schema"},
                              {"name", "in", "allowEmptyValue", "allowReserved", "content"}})
          => Accepted

\* A header parameter with `allowReserved` has been rejected.
C26_Witness ==
    /\ Rejected
    /\ target = "Parameter"
    /\ Keys(node) = {"name", "in", "allowReserved", "schema"}
    /\ Val(node, "in") = Str("header")

====
